---- MODULE Spec2Model ----
(***************************************************************************)
(* Timeline assembly of PromptX: merge_video_audio_captions and its        *)
(* helpers (src/utils/video_processor.py) together with the merge stage of *)
(* generate_video (src/app.py).  Two further specifications share the      *)
(* module: SpecRequest, the stages of generate_video with                  *)
(* fetch_videos_from_keywords (src/utils/video_service.py), and            *)
(* SpecSessions, the files two concurrent requests write while encoding,   *)
(* and SpecRetry, the helper retry_operation (src/app.py).                 *)
(*                                                                         *)
(* Durations are floats, written as below.  A clip object is a record     *)
(*   [src |-> k, dur |-> d, sub |-> b]                                     *)
(* k is the position in video_paths of the file whose decoder the clip     *)
(* reads (0 for a generated clip that reads no file), d is clip.duration   *)
(* and b tells whether the object was produced by subclipped(0, d).        *)
(* A clip always starts at offset 0 of its source: the code never calls    *)
(* subclipped with another start.                                          *)
(*                                                                         *)
(* Calls into moviepy that the code guards with a handler of their own     *)
(* (VideoFileClip, resized, subclipped, TextClip, write_videofile,         *)
(* AudioFileClip) may raise; whether they do is an input.                  *)
(***************************************************************************)
EXTENDS Integers, Sequences, FiniteSets, TLC

\* ------------------------------------------------------------------ bounds
MaxClips == 3
MaxDur == 2
MaxTarget == 4
MaxKeywords == 4
MaxSessionIds == 3
MaxRetries == 2
MaxDelay == 2

\* Durations are floating-point seconds (IEEE 754 binary64).  The model
\* writes the number  k / 10 + d * 2^-56 / 5  seconds as the integer
\* k * TickUnits + d:  k counts ticks of 0.1 s and d counts units of
\* 2^-56 / 5 s, of which a tick has 2^55.  Every float the code meets is such
\* a number with d far below TickUnits / 100 (float(0.1) is 1 tick + 2
\* units, float(0.3) is 3 ticks - 4 units, 0.3 - 0.2 is 1 tick - 8 units), so
\* sums, differences and comparisons of these integers are those of the
\* numbers, and TickUnits only has to keep the units clear of the ticks.
TickUnits == 32768

\* keywords[:3] of src/utils/video_service.py, lines 36 and 170.
KeywordLimit == 3

\* The output size floor of line 115.
MinOutputSize == 10000

\* The number of list entries the process can hold before append raises
\* MemoryError.  A round of the round-robin loop over clips that are not all
\* empty adds a tick or more, and a target is less than MaxTarget + 1 ticks,
\* so a loop that reaches the target appends at most
\* Len(video_clips) * (MaxTarget + 1) segments: the limit is only met by a
\* loop that makes no progress.
MemLimit == (MaxClips + 1) * (MaxTarget + 1)

\* ---------------------------------------------------- float arithmetic
\* The ticks of a number: the k of its writing.
Ticks(x) == (2 * x + TickUnits) \div (2 * TickUnits)

\* The floats from 1/16 s on lie m * 2^-56 s apart, m = 1 below 1/8 s and
\* doubling with every doubling of the number.
RECURSIVE UlpOf(_, _)
UlpOf(x, m) == IF 4 * x < 5 * TickUnits * m THEN m ELSE UlpOf(x, 2 * m)

\* 2^55 modulo 5 * m for m a power of two: m times the inverse of m modulo 5.
RECURSIVE InverseMod5(_)
InverseMod5(m) == IF m = 1 THEN 3 ELSE (3 * InverseMod5(m \div 2)) % 5
TickMod(m) == m * InverseMod5(m)

\* The float nearest to x >= 0, ties to the even mantissa.  Below one tick
\* the numbers met are differences of floats of like size, which are floats.
RoundPositive(x) ==
    LET k == Ticks(x)
        d == x - k * TickUnits
        m == UlpOf(x, 1)
        grid == 5 * m
        r == (k * TickMod(m) + d + grid * TickUnits) % grid
        down == x - r
        even == (k * TickMod(2 * m) + d - r + 2 * grid * TickUnits)
                    % (2 * grid) = 0
    IN  IF k = 0 \/ r = 0 THEN x
        ELSE IF 2 * r < grid THEN down
        ELSE IF 2 * r > grid THEN down + grid
        ELSE IF even THEN down ELSE down + grid

\* The float nearest to x.
Round(x) == IF x < 0 THEN 0 - RoundPositive(0 - x) ELSE RoundPositive(x)

\* a + b and a - b on floats.
FlAdd(a, b) == Round(a + b)
FlSub(a, b) == Round(a - b)

\* The float a decimal number of k tenths of a second is read as.
FloatOf(k) == Round(k * TickUnits)

Durations == {FloatOf(d) : d \in 0..MaxDur}
Targets == {FloatOf(t) : t \in 1..MaxTarget}

\* ------------------------------------------------------------------ inputs
\* A video path as the loader sees it: os.path.exists, whether VideoFileClip
\* opens it, whether clip.size is already (1920, 1080), whether resized
\* succeeds, and the clip's duration.
MissingFile == [exists |-> FALSE, opens |-> FALSE, hd |-> TRUE, resizes |-> TRUE, duration |-> 0]
CorruptFile == [exists |-> TRUE, opens |-> FALSE, hd |-> TRUE, resizes |-> TRUE, duration |-> 0]
UnresizableFile == [exists |-> TRUE, opens |-> TRUE, hd |-> FALSE, resizes |-> FALSE, duration |-> FloatOf(1)]
GoodFiles == [exists : {TRUE}, opens : {TRUE}, hd : BOOLEAN, resizes : {TRUE}, duration : Durations]
VideoFiles == {MissingFile, CorruptFile, UnresizableFile} \cup GoodFiles

\* The audio path: missing, unreadable, or a track of positive duration.
AudioFiles == {[exists |-> FALSE, opens |-> FALSE, duration |-> FloatOf(1)],
               [exists |-> TRUE, opens |-> FALSE, duration |-> FloatOf(1)]}
              \cup [exists : {TRUE}, opens : {TRUE}, duration : Targets]

\* What write_videofile leaves at output_path: nothing, or a file of a size
\* around the floor.
OutputSizes == {MinOutputSize - 1, MinOutputSize, MinOutputSize + 1}
NoFile == [exists |-> FALSE, size |-> 0]
OutputFiles == {NoFile} \cup [exists : {TRUE}, size : OutputSizes]

SeqsUpTo(S, n) == UNION {[1..k -> S] : k \in 0..n}

\* ------------------------------------------------------------------ state
VARIABLES
    video_paths,        \* argument: the files behind the paths, in order
    audio_file,         \* argument: the file behind audio_path
    pc,                 \* position in merge_video_audio_captions / its caller
    target_duration,    \* audio_clip.duration (0 before line 36)
    path_index,         \* the loader loop's position in video_paths
    video_clips,        \* the local video_clips
    opened,             \* decoder handles opened so far
    closed,             \* decoder handles closed so far
    fallback,           \* create_fallback_background: [called, arg, branch]
    reconciler,         \* which of extend/trim was called, and how it returned
    out_clips,          \* extended_clips / trimmed_clips of the running helper
    current_duration,   \* current_duration of the running helper
    clip_index,         \* clip_index of extend / the for loop's position of trim
    concat_duration,    \* duration of the stream made at line 75 (-1 before)
    final_duration,     \* final_video.duration (-1 before line 75)
    correction,         \* what lines 78-84 did: "none", "truncate", "filler"
    black_duration,     \* duration of the black clip of line 83 (0 if none)
    output_file,        \* the file at output_path
    result,             \* return value: "pending", "path" or "None"
    response,           \* generate_video's answer: "pending", "redirect", "result"
    \* generate_video as a whole (SpecRequest)
    keywords,           \* the keywords of the script, each with what the footage
                        \* search and the placeholder maker do for it
    stage,              \* position in generate_video / fetch_videos_from_keywords
    calls,              \* the stage functions called so far, in order
    succeeded,          \* the stages whose try block ran to its end
    kw_index,           \* keywords already visited by the running loop
    fetched,            \* the local video_paths of the footage service
    reply,              \* the request's answer: "pending", "redirect", "result"
    \* two requests encoding at the same time (SpecSessions)
    sessions,           \* per request: its session_id and its position
    touched,            \* per file path: the requests that wrote or removed it
    \* retry_operation (SpecRetry)
    max_retries,        \* its argument
    delay,              \* its argument, doubled in place after every sleep
    attempt,            \* the loop variable of range(max_retries + 1)
    attempts,           \* what each call of operation() did, in call order
    sleeps,             \* the arguments of the time.sleep calls, in call order
    retry_pc,           \* position inside retry_operation
    retry_result        \* how retry_operation ended

mergeVars == <<video_paths, audio_file, pc, target_duration, path_index,
               video_clips, opened, closed, fallback, reconciler, out_clips,
               current_duration, clip_index, concat_duration, final_duration,
               correction, black_duration, output_file, result, response>>
requestVars == <<keywords, stage, calls, succeeded, kw_index, fetched, reply>>
sessionVars == <<sessions, touched>>
retryVars == <<max_retries, delay, attempt, attempts, sleeps, retry_pc,
               retry_result>>

vars == <<mergeVars, requestVars, sessionVars, retryVars>>

\* What merge_video_audio_captions never changes: the files behind its
\* arguments, and the state that belongs to the other stages of its caller
\* and to other requests.
inputs == <<video_paths, audio_file, requestVars, sessionVars, retryVars>>
loaderVars == <<path_index, opened>>
helperVars == <<out_clips, current_duration, clip_index>>
streamVars == <<concat_duration, final_duration, correction, black_duration>>

\* ------------------------------------------------------------------ helpers
\* sum(clip.duration for clip in clips): 0 + d1 + d2 + ..., every addition
\* a float addition.  numpy.cumsum, from which concatenate_videoclips takes
\* the duration of its result, adds in the same order.
RECURSIVE SumDurations(_)
SumDurations(clips) ==
    IF clips = <<>> THEN 0
    ELSE FlAdd(SumDurations(SubSeq(clips, 1, Len(clips) - 1)),
               clips[Len(clips)].dur)

\* The clip object the loader appends for the file at position k.
LoadedClip(k, file) == [src |-> k, dur |-> file.duration, sub |-> FALSE]

\* clip.subclipped(0, t)
Subclipped(clip, t) == [src |-> clip.src, dur |-> t, sub |-> TRUE]

\* A faulty create_fallback_background: a clip of a fixed length, whatever
\* duration is asked for.
FallbackClipFixedLength(duration) == [src |-> 0, dur |-> FloatOf(1), sub |-> FALSE]

\* The clip create_fallback_background returns on either branch: it reads no
\* file and lasts `duration`.
FallbackClip(duration) == [src |-> 0, dur |-> duration, sub |-> FALSE]

\* Decoder handles: the audio reader, and the reader of the file at position k.
AudioHandle == <<"audio", 0>>
VideoHandle(k) == <<"video", k>>

\* The handles closed by closing every clip of `clips`: a subclip or resized
\* copy shares the reader of the file it came from, a generated clip has none.
ReadersOf(clips) ==
    {VideoHandle(clips[k].src) : k \in {j \in DOMAIN clips : clips[j].src # 0}}

\* generate_video is not under study: no request is in progress.
RequestNotRunning ==
    /\ keywords = <<>>
    /\ stage = "idle"
    /\ calls = <<>>
    /\ succeeded = {}
    /\ kw_index = 0
    /\ fetched = <<>>
    /\ reply = "pending"

\* No concurrent encoders are under study.
SessionsNotRunning ==
    /\ sessions = <<>>
    /\ touched = <<>>

\* retry_operation is defined and never called by the application.
RetryNotRunning ==
    /\ max_retries = 0
    /\ delay = 0
    /\ attempt = 0
    /\ attempts = <<>>
    /\ sleeps = <<>>
    /\ retry_pc = "not_called"
    /\ retry_result = [kind |-> "pending", id |-> 0]

Init ==
    /\ RequestNotRunning
    /\ SessionsNotRunning
    /\ RetryNotRunning
    /\ video_paths \in SeqsUpTo(VideoFiles, MaxClips)
    /\ audio_file \in AudioFiles
    /\ pc = "check_audio"
    /\ target_duration = 0
    /\ path_index = 1
    /\ video_clips = <<>>
    /\ opened = {}
    /\ closed = {}
    /\ fallback = [called |-> FALSE, arg |-> 0, branch |-> "none"]
    /\ reconciler = [called |-> "none", raised |-> FALSE]
    /\ out_clips = <<>>
    /\ current_duration = 0
    /\ clip_index = 0
    /\ concat_duration = -1
    /\ final_duration = -1
    /\ correction = "none"
    /\ black_duration = 0
    /\ output_file = NoFile
    /\ result = "pending"
    /\ response = "pending"

\* The handler of lines 122-124: log and return None.
Except ==
    /\ pc = "except"
    /\ pc' = "returned"
    /\ result' = "None"
    /\ UNCHANGED <<inputs, target_duration, loaderVars, video_clips, closed,
                   fallback, reconciler, helperVars, streamVars, output_file,
                   response>>

\* Lines 32-36: the audio must exist and open; its duration is the target.
OpenAudio ==
    /\ pc = "check_audio"
    /\ IF audio_file.exists /\ audio_file.opens
       THEN /\ opened' = opened \cup {AudioHandle}
            /\ target_duration' = audio_file.duration
            /\ pc' = "load"
       ELSE /\ pc' = "except"
            /\ UNCHANGED <<opened, target_duration>>
    /\ UNCHANGED <<inputs, path_index, video_clips, closed, fallback,
                   reconciler, helperVars, streamVars, output_file, result,
                   response>>

\* A faulty loader loop: the first path that is missing or fails to load ends
\* the whole call through the outer handler.
LoadVideoAborting ==
    /\ pc = "load"
    /\ path_index <= Len(video_paths)
    /\ LET file == video_paths[path_index] IN
       IF file.exists /\ file.opens /\ (file.hd \/ file.resizes)
       THEN /\ opened' = opened \cup {VideoHandle(path_index)}
            /\ video_clips' = Append(video_clips, [src |-> path_index, dur |-> file.duration, sub |-> FALSE])
            /\ path_index' = path_index + 1
            /\ UNCHANGED pc
       ELSE /\ pc' = "except"
            /\ UNCHANGED <<video_clips, opened, path_index>>
    /\ UNCHANGED <<inputs, target_duration, closed, fallback, reconciler,
                   helperVars, streamVars, output_file, result, response>>

\* Lines 42-58, one turn of the loader loop: a missing path is skipped with a
\* warning; an open or resize that raises is logged and skipped (a clip whose
\* resize raised stays open); otherwise the clip is appended.
LoadVideo ==
    /\ pc = "load"
    /\ path_index <= Len(video_paths)
    /\ LET file == video_paths[path_index] IN
       IF ~file.exists THEN
            UNCHANGED <<video_clips, opened>>
       ELSE IF ~file.opens THEN
            UNCHANGED <<video_clips, opened>>
       ELSE /\ opened' = opened \cup {VideoHandle(path_index)}
            /\ IF file.hd \/ file.resizes
               THEN video_clips' = Append(video_clips, LoadedClip(path_index, file))
               ELSE UNCHANGED video_clips
    /\ path_index' = path_index + 1
    /\ UNCHANGED <<inputs, pc, target_duration, closed, fallback, reconciler,
                   helperVars, streamVars, output_file, result, response>>

\* Line 60: the loop is over; an empty clip list asks for the fallback clip.
LoaderDone ==
    /\ pc = "load"
    /\ path_index > Len(video_paths)
    /\ pc' = IF video_clips = <<>> THEN "fallback" ELSE "measure"
    /\ UNCHANGED <<inputs, target_duration, loaderVars, video_clips, closed,
                   fallback, reconciler, helperVars, streamVars, output_file,
                   result, response>>

\* Line 62 and create_fallback_background (lines 212-233): the composite of
\* a colour clip and a caption, or, when building the caption raises, a plain
\* black clip; both last `duration`.
CreateFallback ==
    /\ pc = "fallback"
    /\ \E caption_ok \in BOOLEAN :
         fallback' = [called |-> TRUE, arg |-> target_duration,
                      branch |-> IF caption_ok THEN "normal" ELSE "except"]
    /\ video_clips' = <<FallbackClip(target_duration)>>
    /\ pc' = "measure"
    /\ UNCHANGED <<inputs, target_duration, loaderVars, closed, reconciler,
                   helperVars, streamVars, output_file, result, response>>

\* A faulty comparison at line 67: <= for <.
ReconciliationInclusive(total, target) ==
    IF total <= target THEN "extend"
    ELSE IF total > target THEN "trim"
    ELSE "none"

\* Lines 67 and 70: which helper the total asks for.
Reconciliation(total, target) ==
    IF total < target THEN "extend"
    ELSE IF total > target THEN "trim"
    ELSE "none"

\* Lines 65-72: sum the durations and enter extend, trim or neither.
Measure ==
    /\ pc = "measure"
    /\ LET call == Reconciliation(SumDurations(video_clips), target_duration) IN
       /\ reconciler' = [called |-> call, raised |-> FALSE]
       /\ pc' = IF call = "none" THEN "concat" ELSE call
    /\ out_clips' = <<>>
    /\ current_duration' = 0
    /\ clip_index' = 0
    /\ UNCHANGED <<inputs, target_duration, loaderVars, video_clips, closed,
                   fallback, streamVars, output_file, result, response>>

\* A faulty line 143: the index is clamped to the last clip instead of wrapping.
RoundRobinClamped(clips, index) ==
    clips[IF index < Len(clips) THEN index + 1 ELSE Len(clips)]

\* Line 143: the clip the round-robin loop looks at.
RoundRobin(clips, index) == clips[(index % Len(clips)) + 1]

\* A faulty comparison at lines 146 and 185: < for <=.
SegmentForStrict(clip, remaining) ==
    IF clip.dur < remaining THEN clip
    ELSE [src |-> clip.src, dur |-> remaining, sub |-> TRUE]

\* A faulty lines 146-153: every segment is made with subclipped, also a clip
\* that fits.
SegmentForAlwaysCut(clip, remaining) ==
    [src |-> clip.src,
     dur |-> IF clip.dur <= remaining THEN clip.dur ELSE remaining,
     sub |-> TRUE]

\* Lines 146-153 and 185-192: the segment taken from `clip` when `remaining`
\* is left: the clip itself when it fits, otherwise its first `remaining`.
SegmentFor(clip, remaining) ==
    IF clip.dur <= remaining THEN clip ELSE Subclipped(clip, remaining)

\* The helper's handler (lines 160-162, 198-200): return the list it was given.
HelperRaised ==
    /\ reconciler' = [reconciler EXCEPT !.raised = TRUE]
    /\ pc' = "concat"
    /\ UNCHANGED <<video_clips, helperVars>>

\* The loop is left for the helper's last lines, with `clips` collected.
LoopEnds(clips) ==
    /\ out_clips' = clips
    /\ pc' = "helper_return"
    /\ UNCHANGED <<video_clips, reconciler, current_duration, clip_index>>

\* extend_videos_to_duration, one test of the while condition (line 142) and,
\* if it holds, one turn of the loop (lines 143-155).  subclipped may raise,
\* and so does append once the list has grown to MemLimit.
ExtendStep ==
    /\ pc = "extend"
    /\ IF current_duration < target_duration THEN
          \E subclip_ok \in BOOLEAN :
            LET clip == RoundRobin(video_clips, clip_index)
                remaining == FlSub(target_duration, current_duration)
                segment == SegmentFor(clip, remaining)
            IN  IF (segment.sub /\ ~subclip_ok) \/ Len(out_clips) >= MemLimit
                THEN HelperRaised
                ELSE /\ out_clips' = Append(out_clips, segment)
                     /\ current_duration' = FlAdd(current_duration, segment.dur)
                     /\ clip_index' = clip_index + 1
                     /\ UNCHANGED <<video_clips, reconciler, pc>>
       ELSE LoopEnds(out_clips)
    /\ UNCHANGED <<inputs, target_duration, loaderVars, closed, fallback,
                   streamVars, output_file, result, response>>

\* trim_videos_to_duration, one turn of the for loop (lines 179-193) or its
\* end.  clip_index counts the clips already visited; a trimmed clip is
\* appended and the loop is left (lines 190-193).
TrimStep ==
    /\ pc = "trim"
    /\ IF clip_index >= Len(video_clips) THEN LoopEnds(out_clips)
       ELSE
          \E subclip_ok \in BOOLEAN :
            LET clip == video_clips[clip_index + 1]
                remaining == FlSub(target_duration, current_duration)
                segment == SegmentFor(clip, remaining)
            IN  IF remaining <= 0 THEN LoopEnds(out_clips)
                ELSE IF segment.sub THEN
                        IF subclip_ok
                        THEN /\ out_clips' = Append(out_clips, segment)
                             /\ current_duration' =
                                   FlAdd(current_duration, segment.dur)
                             /\ pc' = "helper_return"
                             /\ UNCHANGED <<video_clips, reconciler, clip_index>>
                        ELSE HelperRaised
                ELSE /\ out_clips' = Append(out_clips, segment)
                     /\ current_duration' = FlAdd(current_duration, segment.dur)
                     /\ clip_index' = clip_index + 1
                     /\ UNCHANGED <<video_clips, reconciler, pc>>
    /\ UNCHANGED <<inputs, target_duration, loaderVars, closed, fallback,
                   streamVars, output_file, result, response>>

\* Lines 157-158 and 195-196: the helper logs and returns its list, which
\* line 69 or 72 assigns to video_clips.
HelperReturn ==
    /\ pc = "helper_return"
    /\ video_clips' = out_clips
    /\ pc' = "concat"
    /\ UNCHANGED <<inputs, target_duration, loaderVars, closed, fallback,
                   reconciler, helperVars, streamVars, output_file, result,
                   response>>

\* Line 75: concatenate_videoclips; the stream lasts the sum of its clips and
\* an empty list raises.
Concatenate ==
    /\ pc = "concat"
    /\ IF video_clips = <<>>
       THEN /\ pc' = "except"
            /\ UNCHANGED <<concat_duration, final_duration>>
       ELSE /\ concat_duration' = SumDurations(video_clips)
            /\ final_duration' = SumDurations(video_clips)
            /\ pc' = "correct"
    /\ UNCHANGED <<inputs, target_duration, loaderVars, video_clips, closed,
                   fallback, reconciler, helperVars, correction, black_duration,
                   output_file, result, response>>

\* A faulty comparison at line 78: >= for >.
CorrectionForInclusive(duration, target) ==
    IF duration >= target THEN "truncate"
    ELSE IF duration < target THEN "filler"
    ELSE "none"

\* Lines 78 and 80: what the compositor does to a stream of `duration`.
CorrectionFor(duration, target) ==
    IF duration > target THEN "truncate"
    ELSE IF duration < target THEN "filler"
    ELSE "none"

\* A faulty line 82: the filler lasts the whole target.
BlackDurationWhole(duration, target) == target

\* Line 82: the black clip's duration, target_duration - final_video.duration.
BlackDuration(duration, target) == FlSub(target, duration)

\* Lines 78-84: cut the stream to [0, target] (subclipped may raise), or
\* append a black clip for the deficit, or leave it.
CorrectDuration ==
    /\ pc = "correct"
    /\ \E subclip_ok \in BOOLEAN :
         LET what == CorrectionFor(final_duration, target_duration) IN
         IF what = "truncate" THEN
            IF subclip_ok
            THEN /\ final_duration' = target_duration
                 /\ correction' = "truncate"
                 /\ pc' = "write"
                 /\ UNCHANGED black_duration
            ELSE /\ pc' = "except"
                 /\ UNCHANGED <<final_duration, correction, black_duration>>
         ELSE IF what = "filler" THEN
            /\ black_duration' = BlackDuration(final_duration, target_duration)
            /\ final_duration' = FlAdd(final_duration, black_duration')
            /\ correction' = "filler"
            /\ pc' = "write"
         ELSE /\ pc' = "write"
              /\ UNCHANGED <<final_duration, correction, black_duration>>
    /\ UNCHANGED <<inputs, target_duration, loaderVars, video_clips, closed,
                   fallback, reconciler, helperVars, concat_duration,
                   output_file, result, response>>

\* Lines 87-106: write_videofile.  It returns or raises, and leaves nothing
\* or a file of some size at output_path.
WriteVideo ==
    /\ pc = "write"
    /\ \E raised \in BOOLEAN, file \in OutputFiles :
         /\ output_file' = file
         /\ pc' = IF raised THEN "except" ELSE "close"
    /\ UNCHANGED <<inputs, target_duration, loaderVars, video_clips, closed,
                   fallback, reconciler, helperVars, streamVars, result,
                   response>>

\* Lines 109-112: close the clips of video_clips and the audio clip.
CloseClips ==
    /\ pc = "close"
    /\ closed' = closed \cup ReadersOf(video_clips) \cup {AudioHandle}
    /\ pc' = "validate"
    /\ UNCHANGED <<inputs, target_duration, loaderVars, video_clips, fallback,
                   reconciler, helperVars, streamVars, output_file, result,
                   response>>

\* A faulty line 115: >= for >.
OutputValidAtFloor(file) == file.exists /\ file.size >= MinOutputSize

\* Line 115: the output counts when it exists and is larger than the floor.
OutputValid(file) == file.exists /\ file.size > MinOutputSize

\* Lines 115-120: return the path of a valid output, None otherwise.
Validate ==
    /\ pc = "validate"
    /\ result' = IF OutputValid(output_file) THEN "path" ELSE "None"
    /\ pc' = "returned"
    /\ UNCHANGED <<inputs, target_duration, loaderVars, video_clips, closed,
                   fallback, reconciler, helperVars, streamVars, output_file,
                   response>>

\* Path.unlink(missing_ok=True) on a file of the session.
Unlinked(file) == [file EXCEPT !.exists = FALSE]

\* generate_video after the call (src/app.py lines 118-136): no path, or a
\* path with no file, flashes and redirects; otherwise
\* cleanup_temp_files(session_id, keep_final=True) runs, which unlinks the
\* session's files in static/videos and static/audio, the files behind
\* video_paths and audio_path, and leaves static/final alone; then the result
\* page is rendered.
MergeStageEnds ==
    /\ pc = "returned"
    /\ pc' = "responded"
    /\ IF result = "None" \/ ~output_file.exists
       THEN /\ response' = "redirect"
            /\ UNCHANGED <<video_paths, audio_file>>
       ELSE /\ response' = "result"
            /\ video_paths' = [k \in DOMAIN video_paths |->
                                  Unlinked(video_paths[k])]
            /\ audio_file' = Unlinked(audio_file)
    /\ UNCHANGED <<requestVars, sessionVars, retryVars, target_duration,
                   loaderVars, video_clips, closed, fallback, reconciler,
                   helperVars, streamVars, output_file, result>>

Next ==
    \/ OpenAudio
    \/ LoadVideo
    \/ LoaderDone
    \/ CreateFallback
    \/ Measure
    \/ ExtendStep
    \/ TrimStep
    \/ HelperReturn
    \/ Concatenate
    \/ CorrectDuration
    \/ WriteVideo
    \/ CloseClips
    \/ Validate
    \/ Except
    \/ MergeStageEnds

Spec == Init /\ [][Next]_vars

\* ---------------------------------------------------- generate_video
\* What the outside world does for one keyword: the footage search either
\* raises or cannot be downloaded ("error"), finds nothing ("empty") or yields
\* a downloaded clip ("clip"); the placeholder maker succeeds or raises.
KeywordOutcomes == [api : {"error", "empty", "clip"}, placeholder : BOOLEAN]

\* keywords[:3]
FirstKeywords(kws) ==
    SubSeq(kws, 1, IF Len(kws) < KeywordLimit THEN Len(kws) ELSE KeywordLimit)

\* Every merge variable at rest: merge_video_audio_captions is one opaque call
\* of the request below.
MergeNotRunning ==
    /\ video_paths = <<>>
    /\ audio_file = [exists |-> FALSE, opens |-> FALSE, duration |-> FloatOf(1)]
    /\ pc = "not_called"
    /\ target_duration = 0
    /\ path_index = 0
    /\ video_clips = <<>>
    /\ opened = {}
    /\ closed = {}
    /\ fallback = [called |-> FALSE, arg |-> 0, branch |-> "none"]
    /\ reconciler = [called |-> "none", raised |-> FALSE]
    /\ out_clips = <<>>
    /\ current_duration = 0
    /\ clip_index = 0
    /\ concat_duration = -1
    /\ final_duration = -1
    /\ correction = "none"
    /\ black_duration = 0
    /\ output_file = NoFile
    /\ result = "pending"
    /\ response = "pending"

InitRequest ==
    /\ MergeNotRunning
    /\ SessionsNotRunning
    /\ RetryNotRunning
    /\ keywords \in SeqsUpTo(KeywordOutcomes, MaxKeywords)
    /\ stage = "prompt"
    /\ calls = <<>>
    /\ succeeded = {}
    /\ kw_index = 0
    /\ fetched = <<>>
    /\ reply = "pending"

\* Each stage's try block either reaches its end, and the next stage follows,
\* or its handler flashes a message and returns the redirect.
StageOutcomeIgnoringFailure(ok, next) == next

StageOutcome(ok, next) == IF ok THEN next ELSE "done"

\* The tail every stage of generate_video shares.
StageEnds(name, ok, next) ==
    /\ stage' = StageOutcome(ok, next)
    /\ succeeded' = IF ok THEN succeeded \cup {name} ELSE succeeded
    /\ reply' = IF ok THEN reply ELSE "redirect"

\* The prompt check: an empty prompt is answered with a redirect.
ReceivePrompt ==
    /\ stage = "prompt"
    /\ \E prompt_given \in BOOLEAN :
          /\ stage' = IF prompt_given THEN "script" ELSE "done"
          /\ reply' = IF prompt_given THEN reply ELSE "redirect"
    /\ UNCHANGED <<mergeVars, sessionVars, retryVars, keywords, calls, succeeded,
                   kw_index, fetched>>

\* Step 1: generate_script_from_prompt raises, or answers with or without a
\* script; an empty script or an empty keyword list is a failure.
ScriptStage ==
    /\ stage = "script"
    /\ calls' = Append(calls, "script")
    /\ \E answer \in {"raises", "no_script", "script"} :
          StageEnds("script", answer = "script" /\ keywords # <<>>, "fetch")
    /\ UNCHANGED <<mergeVars, sessionVars, retryVars, keywords, kw_index, fetched>>

\* Step 2 begins: fetch_videos_from_keywords starts with an empty list.
FetchCalled ==
    /\ stage = "fetch"
    /\ calls' = Append(calls, "fetch")
    /\ fetched' = <<>>
    /\ kw_index' = 0
    /\ stage' = "fetch_loop"
    /\ UNCHANGED <<mergeVars, sessionVars, retryVars, keywords, succeeded, reply>>

\* One round of the search loop: the first video of the keyword that downloads
\* is appended; a failed search or an empty answer moves on to the next keyword.
FetchKeyword ==
    /\ stage = "fetch_loop"
    /\ kw_index < Len(FirstKeywords(keywords))
    /\ kw_index' = kw_index + 1
    /\ fetched' = IF FirstKeywords(keywords)[kw_index + 1].api = "clip"
                  THEN Append(fetched, [keyword |-> kw_index + 1,
                                        kind |-> "download"])
                  ELSE fetched
    /\ UNCHANGED <<mergeVars, sessionVars, retryVars, keywords, stage, calls, succeeded,
                   reply>>

\* After the loop: placeholders are made only when nothing was downloaded.
FetchLoopDone ==
    /\ stage = "fetch_loop"
    /\ kw_index = Len(FirstKeywords(keywords))
    /\ IF fetched = <<>>
       THEN stage' = "fetch_fallback" /\ kw_index' = 0
       ELSE stage' = "fetch_check" /\ kw_index' = kw_index
    /\ UNCHANGED <<mergeVars, sessionVars, retryVars, keywords, calls, succeeded, fetched,
                   reply>>

\* One round of get_fallback_videos: a placeholder that cannot be written is
\* skipped.
FallbackKeyword ==
    /\ stage = "fetch_fallback"
    /\ kw_index < Len(FirstKeywords(keywords))
    /\ kw_index' = kw_index + 1
    /\ fetched' = IF FirstKeywords(keywords)[kw_index + 1].placeholder
                  THEN Append(fetched, [keyword |-> kw_index + 1,
                                        kind |-> "placeholder"])
                  ELSE fetched
    /\ UNCHANGED <<mergeVars, sessionVars, retryVars, keywords, stage, calls, succeeded,
                   reply>>

FallbackDone ==
    /\ stage = "fetch_fallback"
    /\ kw_index = Len(FirstKeywords(keywords))
    /\ stage' = "fetch_check"
    /\ UNCHANGED <<mergeVars, sessionVars, retryVars, keywords, calls, succeeded, kw_index,
                   fetched, reply>>

\* Step 2 ends: an empty list raises "No videos found for keywords".
FetchChecked ==
    /\ stage = "fetch_check"
    /\ StageEnds("fetch", fetched # <<>>, "voice")
    /\ UNCHANGED <<mergeVars, sessionVars, retryVars, keywords, calls, kw_index, fetched>>

\* Step 3: generate_voiceover_from_script answers None or a path; the path may
\* name no file.
VoiceStage ==
    /\ stage = "voice"
    /\ calls' = Append(calls, "voice")
    /\ \E answer \in {"raises", "None", "missing", "path"} :
          StageEnds("voice", answer = "path", "merge")
    /\ UNCHANGED <<mergeVars, sessionVars, retryVars, keywords, kw_index, fetched>>

\* Step 4: merge_video_audio_captions answers None or the output path.
MergeStage ==
    /\ stage = "merge"
    /\ calls' = Append(calls, "merge")
    /\ \E answer \in {"None", "missing", "path"} :
          StageEnds("merge", answer = "path", "cleanup")
    /\ UNCHANGED <<mergeVars, sessionVars, retryVars, keywords, kw_index, fetched>>

\* cleanup_temp_files, then the result page.
CleanupAndRender ==
    /\ stage = "cleanup"
    /\ calls' = Append(calls, "cleanup")
    /\ stage' = "done"
    /\ reply' = "result"
    /\ UNCHANGED <<mergeVars, sessionVars, retryVars, keywords, succeeded, kw_index,
                   fetched>>

NextRequest ==
    \/ ReceivePrompt
    \/ ScriptStage
    \/ FetchCalled
    \/ FetchKeyword
    \/ FetchLoopDone
    \/ FallbackKeyword
    \/ FallbackDone
    \/ FetchChecked
    \/ VoiceStage
    \/ MergeStage
    \/ CleanupAndRender

SpecRequest == InitRequest /\ [][NextRequest]_vars

\* ------------------------------------------- two requests encoding at once
\* Two requests of the threaded server, each in the write section of
\* merge_video_audio_captions with the session_id generate_video drew for it.
Requests == {1, 2}
SessionIds == 1..MaxSessionIds

\* temp_audiofile='temp-audio.m4a': one name in the working directory, the
\* same for every call.
TempAudioPath == <<"temp-audio.m4a", 0>>

\* os.path.join('static', 'final', f"final_video_{session_id}.mp4")
OutputPath(session_id) == <<"static/final/final_video", session_id>>

Paths == {TempAudioPath} \cup {OutputPath(i) : i \in SessionIds}

InitSessions ==
    /\ MergeNotRunning
    /\ RequestNotRunning
    /\ RetryNotRunning
    /\ sessions \in [Requests -> [id : SessionIds, at : {"makedirs"}]]
    /\ \A r1, r2 \in Requests : r1 # r2 => sessions[r1].id # sessions[r2].id
    /\ touched = [p \in Paths |-> {}]

\* Request r writes or removes the file at path and moves on.
Touch(r, path, next) ==
    /\ touched' = [touched EXCEPT ![path] = @ \cup {r}]
    /\ sessions' = [sessions EXCEPT ![r].at = next]
    /\ UNCHANGED <<mergeVars, requestVars, retryVars>>

\* os.makedirs of static/final: a directory, no file of the request.
SessionMakeDirs(r) ==
    /\ sessions[r].at = "makedirs"
    /\ sessions' = [sessions EXCEPT ![r].at = "temp_audio"]
    /\ UNCHANGED <<mergeVars, requestVars, retryVars, touched>>

\* write_videofile first encodes the audio track into the temporary file,
SessionWriteTempAudio(r) ==
    /\ sessions[r].at = "temp_audio"
    /\ Touch(r, TempAudioPath, "output")

\* then encodes the video and muxes the temporary audio into the output,
SessionWriteOutput(r) ==
    /\ sessions[r].at = "output"
    /\ Touch(r, OutputPath(sessions[r].id), "remove_temp")

\* and with remove_temp=True deletes the temporary file.
SessionRemoveTemp(r) ==
    /\ sessions[r].at = "remove_temp"
    /\ Touch(r, TempAudioPath, "written")

NextSessions ==
    \/ \E r \in Requests : SessionMakeDirs(r)
    \/ \E r \in Requests : SessionWriteTempAudio(r)
    \/ \E r \in Requests : SessionWriteOutput(r)
    \/ \E r \in Requests : SessionRemoveTemp(r)

SpecSessions == InitSessions /\ [][NextSessions]_vars

\* ----------------------------------------------------- retry_operation
\* What one call of operation() does: it returns a value, raises an Exception,
\* or raises something that is no Exception (KeyboardInterrupt, SystemExit),
\* which "except Exception" lets through.  id tells the calls apart: the value
\* or the exception object of call number id.
OperationOutcomes == {"value", "Exception", "BaseException"}

InitRetry ==
    /\ MergeNotRunning
    /\ RequestNotRunning
    /\ SessionsNotRunning
    /\ max_retries \in -1..MaxRetries
    /\ delay \in 0..MaxDelay
    /\ attempt = 0
    /\ attempts = <<>>
    /\ sleeps = <<>>
    /\ retry_pc = "for"
    /\ retry_result = [kind |-> "pending", id |-> 0]

\* delay *= 2
NextDelayFixed(d) == d

NextDelay(d) == d * 2

\* for attempt in range(max_retries + 1): an exhausted range falls off the end
\* of the function, which returns None.
RetryFor ==
    /\ retry_pc = "for"
    /\ IF attempt < max_retries + 1
       THEN /\ retry_pc' = "try"
            /\ retry_result' = retry_result
       ELSE /\ retry_pc' = "done"
            /\ retry_result' = [kind |-> "None", id |-> 0]
    /\ UNCHANGED <<mergeVars, requestVars, sessionVars, max_retries, delay,
                   attempt, attempts, sleeps>>

\* return operation()
RetryCall ==
    /\ retry_pc = "try"
    /\ \E outcome \in OperationOutcomes :
          /\ attempts' = Append(attempts, [kind |-> outcome,
                                           id |-> Len(attempts) + 1])
          /\ retry_pc' = IF outcome = "Exception" THEN "except" ELSE "done"
          /\ retry_result' =
                IF outcome = "value"
                THEN [kind |-> "returned", id |-> Len(attempts) + 1]
                ELSE IF outcome = "BaseException"
                     THEN [kind |-> "raised", id |-> Len(attempts) + 1]
                     ELSE retry_result
    /\ UNCHANGED <<mergeVars, requestVars, sessionVars, max_retries, delay,
                   attempt, sleeps>>

\* except Exception as e: if attempt == max_retries: raise e
RetryExcept ==
    /\ retry_pc = "except"
    /\ IF attempt = max_retries
       THEN /\ retry_pc' = "done"
            /\ retry_result' = [kind |-> "raised",
                                id |-> attempts[Len(attempts)].id]
       ELSE /\ retry_pc' = "sleep"
            /\ retry_result' = retry_result
    /\ UNCHANGED <<mergeVars, requestVars, sessionVars, max_retries, delay,
                   attempt, attempts, sleeps>>

\* time.sleep(delay); delay *= 2; and the loop takes the next attempt.
RetrySleep ==
    /\ retry_pc = "sleep"
    /\ sleeps' = Append(sleeps, delay)
    /\ delay' = NextDelay(delay)
    /\ attempt' = attempt + 1
    /\ retry_pc' = "for"
    /\ UNCHANGED <<mergeVars, requestVars, sessionVars, max_retries, attempts,
                   retry_result>>

NextRetry ==
    \/ RetryFor
    \/ RetryCall
    \/ RetryExcept
    \/ RetrySleep

SpecRetry == InitRetry /\ [][NextRetry]_vars

\* ------------------------------------------------------------------ claims
\* What the loader is expected to keep of the first n paths: the clips of the
\* files that exist, open and have or take the output size, in input order.
Loadable(file) == file.exists /\ file.opens /\ (file.hd \/ file.resizes)

RECURSIVE KeptOfFirst(_)
KeptOfFirst(n) ==
    IF n = 0 THEN <<>>
    ELSE IF Loadable(video_paths[n])
         THEN Append(KeptOfFirst(n - 1),
                     [src |-> n, dur |-> video_paths[n].duration, sub |-> FALSE])
         ELSE KeptOfFirst(n - 1)

KeptClips == KeptOfFirst(Len(video_paths))

\* The durations of `clips` added as numbers, without rounding.
RECURSIVE ExactSum(_)
ExactSum(clips) ==
    IF clips = <<>> THEN 0
    ELSE Head(clips).dur + ExactSum(Tail(clips))

\* ExactSum of the first k entries.
SumOfFirst(clips, k) == ExactSum(SubSeq(clips, 1, k))

\* Two durations that agree within the tolerance of 1 ms, a hundredth of a
\* tick: they have the same ticks and differ by units only.
Within1ms(a, b) == 100 * (a - b) < TickUnits /\ 100 * (b - a) < TickUnits

\* a is at most b, within the tolerance.
AtMost1ms(a, b) == a <= b \/ Within1ms(a, b)

\* The positions of merge_video_audio_captions from line 75 to line 120.
AtOrAfterConcat == {"concat", "correct", "write", "close", "validate"}

\* C1: for every non-empty list of loaded clips, the clip list that reaches
\* concatenation (line 75) has a summed duration equal to the target, within
\* 1 ms.
C1_ConcatInputMeetsTarget ==
    (pc = "concat" /\ ~fallback.called)
        => Within1ms(ExactSum(video_clips), target_duration)

\* C2: under-run.  While extend_videos_to_duration runs and when it leaves
\* its loop, segment k of its list comes from input clip k mod n; no segment
\* was appended after the target was passed; a whole clip is appended only
\* when it fits; a clip that does not fit is appended cut to [0, remaining],
\* shorter than the clip, it is the last segment and the total then is the
\* target; and the list the helper returns totals the target.  Totals and
\* lengths are compared within 1 ms.
C2_ExtendRoundRobin ==
    /\ (pc = "extend" \/ (pc = "helper_return" /\ reconciler.called = "extend"))
        => /\ Within1ms(current_duration, ExactSum(out_clips))
           /\ \A k \in 1..Len(out_clips) :
                LET from == video_clips[((k - 1) % Len(video_clips)) + 1]
                    before == SumOfFirst(out_clips, k - 1)
                IN  /\ out_clips[k].src = from.src
                    /\ AtMost1ms(before, target_duration)
                    /\ \/ /\ out_clips[k] = from
                          /\ AtMost1ms(from.dur, target_duration - before)
                       \/ /\ out_clips[k].sub
                          /\ Within1ms(out_clips[k].dur, target_duration - before)
                          /\ out_clips[k].dur < from.dur
                          /\ k = Len(out_clips)
                          /\ current_duration = target_duration
    /\ (pc = "helper_return" /\ reconciler.called = "extend")
        => /\ Within1ms(ExactSum(out_clips), target_duration)
           /\ current_duration >= target_duration

\* C2's case: two clips of positive length, the loop went round them more
\* than once and ended on a clip cut well short of its length.
C2_Witness ==
    /\ pc = "helper_return"
    /\ reconciler.called = "extend"
    /\ Len(video_clips) = 2
    /\ \A k \in 1..2 : video_clips[k].dur > 0
    /\ Len(out_clips) = 3
    /\ out_clips[3].sub
    /\ ~Within1ms(out_clips[3].dur, video_clips[1].dur)

\* C3: over-run.  trim_videos_to_duration keeps the input order, appends
\* whole clips while the total stays at or below the target, appends the
\* first clip that would cross it cut to [0, remaining], shorter than the
\* clip, and then stops: the trimmed clip is the last segment, no later clip
\* contributes, and the list the helper returns totals the target.  Totals
\* and lengths are compared within 1 ms.
C3_TrimInOrder ==
    /\ (pc = "trim" \/ (pc = "helper_return" /\ reconciler.called = "trim"))
        => /\ Len(out_clips) <= Len(video_clips)
           /\ Within1ms(current_duration, ExactSum(out_clips))
           /\ \A k \in 1..Len(out_clips) :
                LET before == SumOfFirst(out_clips, k - 1) IN
                \/ /\ out_clips[k] = video_clips[k]
                   /\ AtMost1ms(before + video_clips[k].dur, target_duration)
                \/ /\ out_clips[k].sub
                   /\ out_clips[k].src = video_clips[k].src
                   /\ Within1ms(out_clips[k].dur, target_duration - before)
                   /\ out_clips[k].dur < video_clips[k].dur
                   /\ k = Len(out_clips)
                   /\ pc = "helper_return"
    /\ (pc = "helper_return" /\ reconciler.called = "trim")
        => Within1ms(ExactSum(out_clips), target_duration)

\* C3's case: a whole clip, then a trimmed one, and a later clip dropped.
C3_Witness ==
    /\ pc = "helper_return"
    /\ reconciler.called = "trim"
    /\ Len(out_clips) = 2
    /\ out_clips[1].dur > 0
    /\ out_clips[2].sub
    /\ ~Within1ms(out_clips[2].dur, video_clips[2].dur)
    /\ Len(video_clips) > 2

\* C4: exact match.  When the total of line 65 is the target, neither helper
\* is called and the list that reaches concatenation is the loaded list: same
\* clips, same order, none trimmed; and only then is no helper called.
C4_ExactMatchUntouched ==
    (pc \in AtOrAfterConcat /\ KeptClips # <<>>)
        => /\ SumDurations(KeptClips) = target_duration
                => /\ reconciler.called = "none"
                   /\ video_clips = KeptClips
                   /\ \A k \in 1..Len(video_clips) : ~video_clips[k].sub
           /\ reconciler.called = "none"
                => SumDurations(KeptClips) = target_duration

\* C4's case: a single clip as long as the audio.
C4_Witness ==
    /\ pc = "concat"
    /\ Len(KeptClips) = 1
    /\ KeptClips[1].dur = target_duration
    /\ video_clips = KeptClips

\* C5: when no path yields a loaded clip, create_fallback_background is
\* called with the audio's duration, on either of its branches it returns a
\* clip of that duration, and the list that reaches concatenation is that
\* single clip, which neither helper touches.
C5_FallbackMeetsTarget ==
    /\ (pc \in {"measure"} \cup AtOrAfterConcat /\ KeptClips = <<>>)
        => /\ fallback.called
           /\ fallback.branch \in {"normal", "except"}
           /\ fallback.arg = audio_file.duration
           /\ Len(video_clips) = 1
           /\ video_clips[1].src = 0
           /\ video_clips[1].dur = audio_file.duration
           /\ ~video_clips[1].sub
    /\ (pc \in AtOrAfterConcat /\ KeptClips = <<>>)
        => reconciler.called = "none"

\* C5's case: several paths, none loads, and the caption of the fallback
\* clip could not be built.
C5_Witness ==
    /\ pc = "concat"
    /\ Len(video_paths) >= 2
    /\ KeptClips = <<>>
    /\ fallback.branch = "except"

\* The positions between the duration correction and the return of line 117
\* or 120.
AfterCorrection == {"write", "close", "validate"}

\* C6: after the correction of lines 78-84 the stream lasts the target
\* within 1 ms, whatever the concatenated stream lasted: a longer stream was
\* cut to [0, target], a shorter one got a black clip of the deficit; this
\* also when extend or trim fell back to the unreconciled list.
C6_CorrectedStreamMeetsTarget ==
    pc \in AfterCorrection
        => /\ Within1ms(final_duration, target_duration)
           /\ concat_duration > target_duration
                => /\ correction = "truncate"
                   /\ black_duration = 0
                   /\ final_duration = target_duration
           /\ concat_duration < target_duration
                => /\ correction = "filler"
                   /\ Within1ms(black_duration, target_duration - concat_duration)
                   /\ black_duration > 0

\* C6's case: extend fell back to the unreconciled list and the stream was
\* padded.
C6_Witness ==
    /\ pc = "write"
    /\ reconciler = [called |-> "extend", raised |-> TRUE]
    /\ concat_duration < target_duration
    /\ correction = "filler"

\* C7: a concatenated stream that already lasts the target is neither cut
\* nor padded.
C7_ExactStreamUntouched ==
    (pc \in AfterCorrection /\ concat_duration = target_duration)
        => /\ correction = "none"
           /\ black_duration = 0
           /\ final_duration = concat_duration

\* C7's case: the reconciled list of a real under-run reaches the
\* compositor with the exact duration.
C7_Witness ==
    /\ pc = "write"
    /\ reconciler = [called |-> "extend", raised |-> FALSE]
    /\ concat_duration = target_duration
    /\ correction = "none"

\* The call has returned to generate_video.
Returned == pc \in {"returned", "responded"}

\* C8: when the encode step leaves no valid output (missing, not larger than
\* the floor) or fails part-way, the call fails and no file remains at the
\* output path afterwards.
C8_FailureLeavesNoOutput ==
    Returned
        => /\ ~OutputValid(output_file) => result = "None"
           /\ result = "None" => ~output_file.exists

\* C9: every decoder handle opened during the call is closed by the time it
\* returns, on every exit path.
C9_HandlesReleased ==
    Returned => opened \subseteq closed

\* C10: the loader loop skips a path that is missing or whose open or resize
\* raises and goes on: it visits every path, and the clips it has collected
\* are exactly those of the loadable paths seen so far, in input order.
C10_LoaderSkipsAndKeepsOrder ==
    /\ pc = "load"
        => /\ path_index \in 1..(Len(video_paths) + 1)
           /\ video_clips = KeptOfFirst(path_index - 1)
    /\ (AudioHandle \in opened /\ pc # "load")
        => path_index = Len(video_paths) + 1
    /\ (pc \in {"fallback", "measure"} /\ ~fallback.called)
        => video_clips = KeptClips

\* C10's case: a clip whose resize raised, then a missing path, then a good
\* file, which is the only clip collected.
C10_Witness ==
    /\ pc = "measure"
    /\ Len(video_paths) = 3
    /\ video_paths[1] = UnresizableFile
    /\ video_paths[2] = MissingFile
    /\ Loadable(video_paths[3])
    /\ video_clips = <<[src |-> 3, dur |-> video_paths[3].duration, sub |-> FALSE]>>

\* The positions at which the clip list is summed and reconciled (lines
\* 65-72 and the two helpers).
InReconciliation == {"measure", "extend", "trim", "helper_return"}

\* C11: every clip that reaches duration reconciliation opened successfully
\* and has a duration above 0; the others were discarded beforehand.
C11_OnlyEligibleClipsReconciled ==
    pc \in InReconciliation
        => \A k \in 1..Len(video_clips) :
              /\ video_clips[k].dur > 0
              /\ video_clips[k].src # 0
                    => /\ video_paths[video_clips[k].src].exists
                       /\ video_paths[video_clips[k].src].opens

\* C15: no exception leaves merge_video_audio_captions; a call that has
\* returned gave a path, and then the file exists and is larger than the
\* floor, or gave None; and None never comes from the video paths alone:
\* the audio did not open, or the call had reached concatenation.
C15_PathOrNone ==
    Returned
        => /\ result \in {"path", "None"}
           /\ result = "path"
                => output_file.exists /\ output_file.size > MinOutputSize
           /\ result = "None"
                => AudioHandle \notin opened \/ concat_duration # -1

\* C15's case: several paths, none of which loads, and the call still gives
\* a path.
C15_Witness ==
    /\ Returned
    /\ result = "path"
    /\ Len(video_paths) >= 2
    /\ \A k \in 1..Len(video_paths) : ~Loadable(video_paths[k])

\* The duration of the file a clip reads.
SourceDuration(clip) == video_paths[clip.src].duration

\* C17: every segment of a list extend or trim has built satisfies
\* 0 <= startOffset < endOffset <= duration of its source (a segment starts
\* at 0 and ends at its dur).
C17_SegmentsWithinSource ==
    pc = "helper_return"
        => \A k \in 1..Len(out_clips) :
              /\ 0 < out_clips[k].dur
              /\ out_clips[k].dur <= SourceDuration(out_clips[k])

\* C18: every call of extend_videos_to_duration ends after finitely many
\* appended segments: each pass over the clips adds to the total, so the
\* list never grows beyond one segment per clip and tick of the target, and
\* one more for a total that a rounding left just below the target.
C18_ExtendLoopExits ==
    pc = "extend"
        => Len(out_clips) <= Len(video_clips) * Ticks(target_duration) + 1

\* The clips of a sequence.
ClipsOf(clips) == {clips[k] : k \in DOMAIN clips}

\* At most the last entry of `clips` is a trimmed clip; the others are
\* loaded clips as they were.
OnlyLastTrimmed(clips) ==
    \A k \in 1..Len(clips) :
        IF k < Len(clips)
        THEN ~clips[k].sub /\ clips[k] \in ClipsOf(KeptClips)
        ELSE clips[k].sub \/ clips[k] \in ClipsOf(KeptClips)

\* C19: in every list extend or trim returns at most one segment is a
\* trimmed clip, it is the last one, and all earlier segments are whole
\* input clips.
C19_AtMostLastTrimmed ==
    /\ pc = "helper_return" => OnlyLastTrimmed(out_clips)
    /\ (pc = "concat" /\ reconciler.called # "none")
        => OnlyLastTrimmed(video_clips)

\* C19's case: trim returned a whole clip followed by a trimmed one.
C19_Witness ==
    /\ pc = "concat"
    /\ reconciler = [called |-> "trim", raised |-> FALSE]
    /\ Len(video_clips) >= 2
    /\ video_clips[Len(video_clips)].sub

\* The stage functions of generate_video in the order of its source.
StageOrder == <<"script", "fetch", "voice", "merge", "cleanup">>

\* C20: the stages of generate_video are called in the order script, fetch,
\* voiceover, merge; a stage is called only after every earlier one succeeded;
\* a stage that fails ends the request with a redirect and no later stage is
\* called; cleanup_temp_files is called only after the merge stage succeeded,
\* and then the result page is the answer.
C20_StagesInOrder ==
    /\ Len(calls) <= Len(StageOrder)
    /\ \A i \in 1..Len(calls) :
          /\ calls[i] = StageOrder[i]
          /\ \A j \in 1..(i - 1) : calls[j] \in succeeded
    /\ reply = "redirect"
          => /\ stage = "done"
             /\ calls # <<>> => calls[Len(calls)] \notin succeeded
    /\ stage = "done" => reply \in {"redirect", "result"}
    /\ reply = "result"
          => calls = StageOrder /\ "merge" \in succeeded

C20_Witness ==
    /\ stage = "done"
    /\ reply = "redirect"
    /\ calls = <<"script", "fetch", "voice">>
    /\ succeeded = {"script", "fetch"}

\* C14: a request whose footage fetch returned an empty list still goes on to
\* the voiceover and, when the voiceover succeeds, to the merge, whose fallback
\* supplies the video.
C14_EmptyFootageProceeds ==
    (stage = "done" /\ Len(calls) >= 2 /\ fetched = <<>>)
        => /\ Len(calls) >= 3
           /\ "voice" \in succeeded => Len(calls) >= 4

\* fetch_videos_from_keywords has returned its list.
FetchReturned == stage \in {"fetch_check", "voice", "merge", "cleanup", "done"}
                 /\ Len(calls) >= 2

\* C16: when some processed keyword yields a download and another does not,
\* the returned list still has one entry per processed keyword, in keyword
\* order.
C16_OneEntryPerKeyword ==
    (FetchReturned /\ \E k \in 1..Len(FirstKeywords(keywords)) :
                          FirstKeywords(keywords)[k].api = "clip")
        => /\ Len(fetched) = Len(FirstKeywords(keywords))
           /\ \A k \in 1..Len(fetched) : fetched[k].keyword = k

\* C13: two concurrent requests with distinct session identifiers share no
\* file: no path written or removed during one request's encoding is written
\* or removed by the other.
C13_NoSharedPath ==
    \A p \in DOMAIN touched : Cardinality(touched[p]) <= 1

\* C21: retry_operation calls the operation at most max_retries + 1 times and
\* never again after a call that returned; it returns the value of that call;
\* when every call raised it raises the exception of the last call; a sleep
\* precedes every retry and each sleep is twice as long as the one before.
C21_RetryContract ==
    /\ Len(attempts) <= max_retries + 1
    /\ \A i \in 1..(Len(attempts) - 1) : attempts[i].kind # "value"
    /\ Len(sleeps) >= Len(attempts) - 1
    /\ \A k \in 1..(Len(sleeps) - 1) : sleeps[k + 1] = 2 * sleeps[k]
    /\ (retry_pc = "done" /\ attempts # <<>>)
          => retry_result =
                [kind |-> IF attempts[Len(attempts)].kind = "value"
                          THEN "returned" ELSE "raised",
                 id |-> attempts[Len(attempts)].id]

C21_Witness ==
    /\ retry_pc = "done"
    /\ max_retries = 2
    /\ Len(attempts) = 3
    /\ \A i \in 1..3 : attempts[i].kind = "Exception"
    /\ retry_result = [kind |-> "raised", id |-> 3]
    /\ sleeps = <<1, 2>>

============================================================================
